---- MODULE Spec2Model ----
(***************************************************************************)
(* A model of the example scripts of the Python runner plug-in:            *)
(*   examples/batch_processing.py  (discovery, extraction, batch loop,     *)
(*                                  grouping, summary)                     *)
(*   examples/custom_filter.py     (filters, statistics, comparison)       *)
(*                                                                         *)
(* Strings that the code inspects character by character (file names,      *)
(* extensions) are sequences of one-character strings.  A path is the      *)
(* sequence of its components below the directory given to main.           *)
(***************************************************************************)
EXTENDS Integers, Sequences, FiniteSets, TLC

VARIABLES
    pc,           \* position in main / in the function under call
    pydicom_ok,   \* whether "import pydicom" succeeds in this interpreter
    has_arg,      \* len(sys.argv) >= 2
    dir_status,   \* what sys.argv[1] names: "absent", "file" or "dir"
    tree,         \* the paths that exist below the directory
    content,      \* what the decoder finds in each regular file
    dicom_files,  \* main: the list returned by find_dicom_files
    idx,          \* main: the loop index (enumerate(..., start=1))
    cur,          \* main: the (success, result) pair just returned
    results,      \* main: the list of (success, result) pairs
    events,       \* the calls made so far, in order
    exit_code,    \* sys.exit status; -1 while running
    report,       \* what display_summary / the processing summary printed
    image,          \* the pixel array stored in the file given to the filters
    load_ok,        \* whether load_dicom_pixel_data can load it
    enable_contrast,\* process_with_filters: its parameter
    percentiles,    \* apply_contrast_enhancement: (percentile_low, percentile_high)
    pixel_data,     \* process_with_filters: the loaded array
    original_stats, \* process_with_filters: the statistics of pixel_data
    filtered,       \* the arrays returned by the filters, by filter
    comparisons     \* what display_filter_comparison printed, in order

filter_vars == <<image, load_ok, enable_contrast, percentiles, pixel_data,
                 original_stats, filtered, comparisons>>

vars == <<pc, pydicom_ok, has_arg, dir_status, tree, content, dicom_files,
          idx, cur, results, events, exit_code, report, filter_vars>>

----------------------------------------------------------------------------
(* Bounds of the model *)

\* at most this many entries exist below the directory
MaxEntries == 3

----------------------------------------------------------------------------
(* File names *)

ExtDcm      == <<".", "d", "c", "m">>
ExtDicom    == <<".", "d", "i", "c", "o", "m">>
ExtDCM      == <<".", "D", "C", "M">>
ExtDICOM    == <<".", "D", "I", "C", "O", "M">>

\* extensions = ['.dcm', '.dicom', '.DCM', '.DICOM']
extensions  == <<ExtDcm, ExtDicom, ExtDCM, ExtDICOM>>

DS_Store    == <<".", "D", "S", "_", "S", "t", "o", "r", "e">>

\* code points of the characters that occur in the names of the model
CharCode(c) ==
    CASE c = "." -> 46
      [] c = "C" -> 67
      [] c = "D" -> 68
      [] c = "I" -> 73
      [] c = "M" -> 77
      [] c = "O" -> 79
      [] c = "S" -> 83
      [] c = "_" -> 95
      [] c = "a" -> 97
      [] c = "b" -> 98
      [] c = "c" -> 99
      [] c = "d" -> 100
      [] c = "e" -> 101
      [] c = "f" -> 102
      [] c = "i" -> 105
      [] c = "m" -> 109
      [] c = "n" -> 110
      [] c = "o" -> 111
      [] c = "r" -> 114
      [] c = "s" -> 115
      [] c = "t" -> 116
      [] c = "x" -> 120

\* str.__lt__: lexicographic by code point
RECURSIVE StrLess(_, _)
StrLess(s, t) ==
    IF t = <<>> THEN FALSE
    ELSE IF s = <<>> THEN TRUE
    ELSE IF s[1] = t[1] THEN StrLess(Tail(s), Tail(t))
    ELSE CharCode(s[1]) < CharCode(t[1])

\* PurePath.__lt__: the lists of components, compared as lists of strings
RECURSIVE PathLess(_, _)
PathLess(p, q) ==
    IF q = <<>> THEN FALSE
    ELSE IF p = <<>> THEN TRUE
    ELSE IF p[1] = q[1] THEN PathLess(Tail(p), Tail(q))
    ELSE StrLess(p[1], q[1])

\* Path.name: the last component
Name(p) == p[Len(p)]

\* Path.parent
Parent(p) == SubSeq(p, 1, Len(p) - 1)

\* str.endswith, which is what the pattern '*' + ext asks of a name
EndsWith(s, e) ==
    /\ Len(s) >= Len(e)
    /\ SubSeq(s, Len(s) - Len(e) + 1, Len(s)) = e

\* str.rfind('.'), 1-based; 0 when there is no dot
LastDot(s) ==
    LET dots == {i \in 1..Len(s) : s[i] = "."}
    IN  IF dots = {} THEN 0 ELSE CHOOSE i \in dots : \A j \in dots : j <= i

\* Path.suffix: the part from the last dot on, unless that dot is the first
\* or the last character of the name
Suffix(p) ==
    LET s == Name(p)
        d == LastDot(s)
    IN  IF d > 1 /\ d < Len(s) THEN SubSeq(s, d, Len(s)) ELSE <<>>

----------------------------------------------------------------------------
(* The file system below the directory, and what the decoder finds *)

P_a_dcm    == << <<"a", ".", "d", "c", "m">> >>
P_b_DICOM  == << <<"b", ".", "D", "I", "C", "O", "M">> >>
P_c        == << <<"c">> >>
P_DS_Store == << DS_Store >>
P_n_txt    == << <<"n", ".", "t", "x", "t">> >>
P_dot_dcm  == << ExtDcm >>
P_d_dcm    == << <<"d", ".", "d", "c", "m">> >>
P_f_DCM    == << <<"f", ".", "D", "C", "M">> >>
P_s        == << <<"s">> >>
P_s_e      == << <<"s">>, <<"e", ".", "d", "i", "c", "o", "m">> >>

\* the directories among the paths of the model; every other path is a
\* regular file
Directories == {P_d_dcm, P_s}

AllPaths == {P_a_dcm, P_b_DICOM, P_c, P_DS_Store, P_n_txt, P_dot_dcm,
             P_d_dcm, P_f_DCM, P_s, P_s_e}

\* Path.is_file()
is_file(p) == p \notin Directories

\* a set of paths is a tree when every entry's parent directory is in it
IsTree(t) ==
    \A p \in t : Len(p) > 1 => (Parent(p) \in t /\ Parent(p) \in Directories)


\* what pydicom.dcmread finds in a regular file: a dataset (the elements it
\* exposes) or a decode failure
DsBrain   == [PatientID |-> "P1", StudyInstanceUID |-> "S1", SeriesNumber |-> "1",
              InstanceNumber |-> "1", Modality |-> "MR",
              StudyDescription |-> "Brain"]
DsChest   == [PatientID |-> "P2", StudyInstanceUID |-> "S1", SeriesNumber |-> "2",
              InstanceNumber |-> "1", Modality |-> "CT",
              StudyDescription |-> "Chest"]
DsOther   == [PatientID |-> "P1", StudyInstanceUID |-> "S2", SeriesNumber |-> "1",
              InstanceNumber |-> "2", Modality |-> "CT"]
DsNoStudy == [PatientID |-> "P3", Modality |-> "US"]

Decoded(ds)   == [ok |-> TRUE, ds |-> ds]
Undecodable(e) == [ok |-> FALSE, err |-> e]

Contents == {Decoded(DsBrain), Decoded(DsChest), Decoded(DsOther),
             Decoded(DsNoStudy), Undecodable("Invalid DICOM file")}

\* pydicom.dcmread(path, stop_before_pixels=True): the dataset, or the
\* exception it raises (the path is absent, is a directory, or is malformed)
dcmread(t, c, p) ==
    IF p \notin t THEN Undecodable("No such file or directory")
    ELSE IF ~is_file(p) THEN Undecodable("Is a directory")
    ELSE c[p]

\* Dataset.get(tag, default)
Get(ds, tag, default) == IF tag \in DOMAIN ds THEN ds[tag] ELSE default

NA == "N/A"

----------------------------------------------------------------------------
(* batch_processing.py: the functions *)

\* process_single_image(dicom_path), given whether pydicom can be imported
\* and the file system it reads
process_single_image(installed, t, c, p) ==
    IF ~installed
    THEN <<FALSE, [error |-> "pydicom not installed"]>>
    ELSE LET r == dcmread(t, c, p)
         IN  IF r.ok
             THEN <<TRUE,
                    [filename          |-> Name(p),
                     patient_id        |-> Get(r.ds, "PatientID", NA),
                     study_uid         |-> Get(r.ds, "StudyInstanceUID", NA),
                     series_number     |-> Get(r.ds, "SeriesNumber", NA),
                     instance_number   |-> Get(r.ds, "InstanceNumber", NA),
                     modality          |-> Get(r.ds, "Modality", NA),
                     study_description |-> Get(r.ds, "StudyDescription", NA)]>>
             ELSE <<FALSE, [error |-> r.err, filename |-> Name(p)]>>

\* sorted(list of Path): insertion of one path into a sorted list
RECURSIVE InsertSorted(_, _)
InsertSorted(p, s) ==
    IF s = <<>> THEN <<p>>
    ELSE IF PathLess(s[1], p) THEN <<s[1]>> \o InsertSorted(p, Tail(s))
    ELSE <<p>> \o s

\* sorted(list of Path)
RECURSIVE sorted(_)
sorted(s) == IF s = <<>> THEN <<>> ELSE InsertSorted(s[1], sorted(Tail(s)))

\* the paths of a set as a list (the order in which rglob yields them is
\* the directory scan order; find_dicom_files sorts the list it builds, so
\* the model enumerates them in path order)
RECURSIVE Listing(_)
Listing(S) ==
    IF S = {} THEN <<>>
    ELSE LET p == CHOOSE x \in S : \A y \in S : x = y \/ PathLess(x, y)
         IN  <<p>> \o Listing(S \ {p})

\* directory.rglob('*' + ext): every entry below the directory, of any
\* kind, whose name ends with ext
rglob_ext(t, ext) == Listing({p \in t : EndsWith(Name(p), ext)})

\* the second loop of find_dicom_files: the regular files without suffix
\* that are not .DS_Store
no_suffix_files(t) ==
    Listing({p \in t : is_file(p) /\ Suffix(p) = <<>> /\ Name(p) # DS_Store})

\* the list built by the two loops of find_dicom_files, before sorting
RECURSIVE extend_all(_, _)
extend_all(t, exts) ==
    IF exts = <<>> THEN <<>>
    ELSE rglob_ext(t, exts[1]) \o extend_all(t, Tail(exts))

\* find_dicom_files(directory)
find_dicom_files(t) == sorted(extend_all(t, extensions) \o no_suffix_files(t))

\* the position of key k in an ordered map (a list of [key, images]); 0 if
\* the map has no such key
KeyIndex(m, k) ==
    LET hits == {i \in 1..Len(m) : m[i].key = k}
    IN  IF hits = {} THEN 0 ELSE CHOOSE i \in hits : TRUE

\* a grouping that puts each record at the front of its group
group_step_Prepend(studies, result) ==
    IF "study_uid" \in DOMAIN result
    THEN LET i == KeyIndex(studies, result.study_uid)
         IN  IF i = 0
             THEN Append(studies, [key |-> result.study_uid, images |-> <<result>>])
             ELSE [studies EXCEPT ![i].images = <<result>> \o @]
    ELSE studies

\* one iteration of the loop of group_by_study
group_step(studies, result) ==
    IF "study_uid" \in DOMAIN result
    THEN LET i == KeyIndex(studies, result.study_uid)
         IN  IF i = 0
             THEN Append(studies, [key |-> result.study_uid, images |-> <<result>>])
             ELSE [studies EXCEPT ![i].images = Append(@, result)]
    ELSE studies

\* group_by_study(results): a dict, kept as the list of its items in
\* insertion order
RECURSIVE group_from(_, _)
group_from(studies, rs) ==
    IF rs = <<>> THEN studies
    ELSE group_from(group_step(studies, rs[1]), Tail(rs))

group_by_study(rs) == group_from(<<>>, rs)

\* [x for success, x in results if success] and its complement
RECURSIVE Select(_, _)
Select(rs, flag) ==
    IF rs = <<>> THEN <<>>
    ELSE IF rs[1][1] = flag THEN <<rs[1][2]>> \o Select(Tail(rs), flag)
    ELSE Select(Tail(rs), flag)

\* errors[:10]: the number of errors shown in detail
ErrorsShown == 10

\* study lines taken from the last record of each group
StudyLines_LastRecord(studies) ==
    [i \in 1..Len(studies) |->
        LET last == studies[i].images[Len(studies[i].images)]
        IN  [study_desc |-> Get(last, "study_description", NA),
             patient_id |-> Get(last, "patient_id", NA),
             modality   |-> Get(last, "modality", NA),
             images     |-> Len(studies[i].images),
             study_uid  |-> studies[i].key]]

\* the per-study lines of display_summary
StudyLines(studies) ==
    [i \in 1..Len(studies) |->
        [study_desc |-> Get(studies[i].images[1], "study_description", NA),
         patient_id |-> Get(studies[i].images[1], "patient_id", NA),
         modality   |-> Get(studies[i].images[1], "modality", NA),
         images     |-> Len(studies[i].images),
         study_uid  |-> studies[i].key]]

\* an error report that prints every error
errors_shown_All(errors) == errors

\* for filename, error in errors[:10]: the errors printed in detail
errors_shown(errors) ==
    SubSeq(errors, 1, IF Len(errors) < ErrorsShown THEN Len(errors) ELSE ErrorsShown)

\* if len(errors) > 10: "... and {len(errors) - 10} more errors"; 0 when
\* the line is not printed
errors_more(errors) ==
    IF Len(errors) > ErrorsShown THEN Len(errors) - ErrorsShown ELSE 0

\* display_summary(results, total_files): what it prints, or the exception
\* that ends it
display_summary(rs, total_files) ==
    LET successful == Len(Select(rs, TRUE))
        failed     == total_files - successful
        studies    == group_by_study(Select(rs, TRUE))
        failures   == Select(rs, FALSE)
        errors     == [i \in 1..Len(failures) |->
                          <<failures[i].filename, Get(failures[i], "error", "Unknown error")>>]
    IN  IF total_files = 0 THEN [raised |-> "ZeroDivisionError"]
        ELSE IF \E i \in 1..Len(failures) : "filename" \notin DOMAIN failures[i]
        THEN [raised |-> "KeyError"]
        ELSE [raised     |-> "",
              total      |-> total_files,
              successful |-> successful,
              failed     |-> failed,
              studies    |-> studies,
              lines      |-> StudyLines(studies),
              errors     |-> errors_shown(errors),
              more       |-> errors_more(errors)]

----------------------------------------------------------------------------
(* custom_filter.py: arrays and statistics                                 *)
(*                                                                         *)
(* An array is a single row of samples.  Its samples are exact fractions   *)
(* with a common denominator: sample i is px[i] / scale.  An array whose   *)
(* samples are all NaN (the result of dividing zeros by zero) has nan set. *)
(* A fraction is a pair <<numerator, denominator>>, denominator positive.  *)

\* at most this many samples in the pixel array of a file
MaxPixels == 3

\* the sample values stored in files
PixelValues == {-50, 0, 50, 100}

RECURSIVE GCD(_, _)
GCD(a, b) == IF b = 0 THEN a ELSE GCD(b, a % b)

Abs(x) == IF x < 0 THEN -x ELSE x

RECURSIVE GCDAll(_, _)
GCDAll(g, s) == IF s = <<>> THEN g ELSE GCDAll(GCD(g, Abs(s[1])), Tail(s))

\* the fraction n / d (d > 0) in lowest terms
Frac(n, d) == LET g == GCD(d, Abs(n)) IN <<n \div g, d \div g>>

\* the array of the samples px[i] / scale (scale > 0), the common
\* denominator in lowest terms
Array(scale, px) ==
    LET g == GCDAll(scale, px)
    IN  [scale |-> scale \div g, px |-> [i \in 1..Len(px) |-> px[i] \div g],
         nan |-> FALSE]

NanArray(n) == [scale |-> 1, px |-> [i \in 1..n |-> 0], nan |-> TRUE]

\* ds.pixel_array.astype(float) of the files of the model
Images == UNION {{Array(1, px) : px \in [1..n -> PixelValues]} : n \in 1..MaxPixels}

RECURSIVE Sum(_)
Sum(s) == IF s = <<>> THEN 0 ELSE s[1] + Sum(Tail(s))

Squares(s) == [i \in 1..Len(s) |-> s[i] * s[i]]

RECURSIVE InsertInt(_, _)
InsertInt(x, s) ==
    IF s = <<>> THEN <<x>>
    ELSE IF s[1] < x THEN <<s[1]>> \o InsertInt(x, Tail(s))
    ELSE <<x>> \o s

\* np.sort of the samples
RECURSIVE SortInts(_)
SortInts(s) == IF s = <<>> THEN <<>> ELSE InsertInt(s[1], SortInts(Tail(s)))

\* 100 * np.percentile(px, q), by linear interpolation between the two
\* order statistics around the position q/100 * (n - 1)
Percentile100(px, q) ==
    LET s   == SortInts(px)
        pos == q * (Len(px) - 1)
        lo  == pos \div 100
        r   == pos % 100
    IN  IF r = 0 THEN 100 * s[lo + 1]
        ELSE 100 * s[lo + 1] + r * (s[lo + 2] - s[lo + 1])

\* np.clip(x, lo, hi)
Clip(x, lo, hi) == IF x < lo THEN lo ELSE IF x > hi THEN hi ELSE x

\* the kernel of the smoothing: scipy's Gaussian kernel is a normalised
\* symmetric kernel whose weights depend on sigma; the model takes the
\* three-tap binomial kernel (1, 2, 1) / 4, with scipy's default boundary
\* mode "reflect" (the edge sample is repeated)
Reflect(px, i) == IF i < 1 THEN px[1] ELSE IF i > Len(px) THEN px[Len(px)] ELSE px[i]

gaussian_filter(a) ==
    IF a.nan THEN a
    ELSE Array(4 * a.scale,
               [i \in 1..Len(a.px) |->
                   Reflect(a.px, i - 1) + 2 * a.px[i] + Reflect(a.px, i + 1)])

\* apply_gaussian_filter(image, sigma)
apply_gaussian_filter(a) == gaussian_filter(a)

\* apply_edge_detection(image, sigma): on a single row the Sobel gradient
\* along axis 0 is zero, the one along axis 1 is the difference of the two
\* neighbours weighted by the (1, 2, 1) smoothing across the rows, and the
\* magnitude sqrt(gx**2 + gy**2) is its absolute value
apply_edge_detection(a) ==
    LET smoothed == gaussian_filter(a)
    IN  IF a.nan THEN a
        ELSE Array(smoothed.scale,
                   [i \in 1..Len(a.px) |->
                       Abs(4 * (Reflect(smoothed.px, i + 1) - Reflect(smoothed.px, i - 1)))])

\* a contrast enhancement that rescales without clipping
apply_contrast_enhancement_NoClip(a, percentile_low, percentile_high) ==
    LET p_low    == Percentile100(a.px, percentile_low)
        p_high   == Percentile100(a.px, percentile_high)
    IN  IF a.nan \/ p_high = p_low THEN NanArray(Len(a.px))
        ELSE Array(p_high - p_low, [i \in 1..Len(a.px) |-> 100 * a.px[i] - p_low])

\* apply_contrast_enhancement(image, percentile_low, percentile_high):
\* the samples clipped to [p_low, p_high], minus p_low, over p_high - p_low;
\* when p_high = p_low every sample is 0.0 / 0.0, which numpy evaluates to NaN
apply_contrast_enhancement(a, percentile_low, percentile_high) ==
    LET p_low    == Percentile100(a.px, percentile_low)
        p_high   == Percentile100(a.px, percentile_high)
        enhanced == [i \in 1..Len(a.px) |-> Clip(100 * a.px[i], p_low, p_high)]
    IN  IF a.nan \/ p_high = p_low THEN NanArray(Len(a.px))
        ELSE Array(p_high - p_low, [i \in 1..Len(a.px) |-> enhanced[i] - p_low])

\* the default percentiles of apply_contrast_enhancement
DefaultPercentileLow  == 2
DefaultPercentileHigh == 98

\* compute_image_statistics(image); 'std' is the square root of var
compute_image_statistics(a) ==
    LET n == Len(a.px)
        s == SortInts(a.px)
    IN  IF a.nan THEN [nan |-> TRUE, shape |-> <<1, n>>]
        ELSE [nan    |-> FALSE,
              min    |-> Frac(s[1], a.scale),
              max    |-> Frac(s[n], a.scale),
              mean   |-> Frac(Sum(a.px), n * a.scale),
              var    |-> Frac(n * Sum(Squares(a.px)) - Sum(a.px) * Sum(a.px),
                              (n * a.scale) * (n * a.scale)),
              median |-> IF n % 2 = 1 THEN Frac(s[(n + 1) \div 2], a.scale)
                         ELSE Frac(s[n \div 2] + s[n \div 2 + 1], 2 * a.scale),
              shape  |-> <<1, n>>]

\* x / y * 100 for numpy floats x = xn / xd and y = yn / yd: a division by
\* zero raises nothing and gives NaN (0 / 0) or an infinity
PercentOf(xn, xd, yn, yd) ==
    IF yn = 0
    THEN IF xn = 0 THEN [kind |-> "nan"]
         ELSE IF xn > 0 THEN [kind |-> "inf"] ELSE [kind |-> "-inf"]
    ELSE IF yn > 0 THEN [kind |-> "finite", val |-> Frac(100 * xn * yd, xd * yn)]
    ELSE [kind |-> "finite", val |-> Frac(-(100 * xn * yd), -(xd * yn))]

\* mean_change = (filtered['mean'] - original['mean']) / original['mean'] * 100
mean_change(o, f) ==
    IF o.nan \/ f.nan THEN [kind |-> "nan"]
    ELSE PercentOf(f.mean[1] * o.mean[2] - o.mean[1] * f.mean[2],
                   f.mean[2] * o.mean[2], o.mean[1], o.mean[2])

\* std_change = (filtered['std'] - original['std']) / original['std'] * 100;
\* a finite change is 100 * (sqrt(val) - 1), val the quotient of the variances
std_change(o, f) ==
    IF o.nan \/ f.nan THEN [kind |-> "nan"]
    ELSE IF o.var[1] = 0
    THEN IF f.var[1] = 0 THEN [kind |-> "nan"] ELSE [kind |-> "inf"]
    ELSE [kind |-> "finite", root_of |-> Frac(f.var[1] * o.var[2], f.var[2] * o.var[1])]

\* display_filter_comparison(original_stats, filtered_stats, filter_name):
\* what it prints
display_filter_comparison(o, f, filter_name) ==
    [filter      |-> filter_name,
     original    |-> o,
     filtered    |-> f,
     mean_change |-> mean_change(o, f),
     std_change  |-> std_change(o, f)]

\* the filter state of a run that uses no filter
NoArray == NanArray(0)

FilterIdle ==
    /\ image = NoArray
    /\ load_ok = FALSE
    /\ enable_contrast = FALSE
    /\ percentiles = <<DefaultPercentileLow, DefaultPercentileHigh>>
    /\ pixel_data = NoArray
    /\ original_stats = [nan |-> TRUE, shape |-> <<1, 0>>]
    /\ filtered = <<>>
    /\ comparisons = <<>>

----------------------------------------------------------------------------
(* batch_processing.py: main *)

Running == -1

NoResult == <<FALSE, [error |-> "", filename |-> <<>>]>>

\* the trees of the model and the contents of their regular files
Trees == {t \in SUBSET AllPaths : Cardinality(t) <= MaxEntries /\ IsTree(t)}

ContentsOf(t) == [{p \in t : is_file(p)} -> Contents]

\* the local state of main before its first statement
MainLocals ==
    /\ dicom_files = <<>>
    /\ idx = 0
    /\ cur = NoResult
    /\ results = <<>>
    /\ events = <<>>
    /\ exit_code = Running
    /\ report = [raised |-> "none"]

\* the interpreter, the command line and the file system in which main runs:
\* entries exist below the path only when the path names a directory
Init ==
    /\ pc = "start"
    /\ pydicom_ok \in BOOLEAN
    /\ has_arg \in BOOLEAN
    /\ dir_status \in {"absent", "file", "dir"}
    /\ tree \in Trees
    /\ (~has_arg => dir_status = "absent")
    /\ (dir_status # "dir" => tree = {})
    /\ content \in ContentsOf(tree)
    /\ MainLocals
    /\ FilterIdle

\* sys.exit(status)
Exit(status) ==
    /\ pc' = "exit"
    /\ exit_code' = status

\* try: import pydicom / except ImportError: ... sys.exit(1)
CheckPydicom ==
    /\ pc = "start"
    /\ IF pydicom_ok
       THEN pc' = "args" /\ UNCHANGED exit_code
       ELSE Exit(1)
    /\ UNCHANGED filter_vars
    /\ UNCHANGED <<pydicom_ok, has_arg, dir_status, tree, content, dicom_files,
                   idx, cur, results, events, report>>

\* if len(sys.argv) < 2: ... sys.exit(0)
CheckArgs ==
    /\ pc = "args"
    /\ IF has_arg
       THEN pc' = "validate" /\ UNCHANGED exit_code
       ELSE Exit(0)
    /\ UNCHANGED filter_vars
    /\ UNCHANGED <<pydicom_ok, has_arg, dir_status, tree, content, dicom_files,
                   idx, cur, results, events, report>>

\* a validation that only tests that the path exists
ValidateDir_ExistsOnly ==
    /\ pc = "validate"
    /\ IF dir_status = "absent" THEN Exit(1)
       ELSE pc' = "find" /\ UNCHANGED exit_code
    /\ UNCHANGED filter_vars
    /\ UNCHANGED <<pydicom_ok, has_arg, dir_status, tree, content, dicom_files,
                   idx, cur, results, events, report>>

\* if not directory.exists(): sys.exit(1); if not directory.is_dir(): sys.exit(1)
ValidateDir ==
    /\ pc = "validate"
    /\ IF dir_status = "absent" THEN Exit(1)
       ELSE IF dir_status # "dir" THEN Exit(1)
       ELSE pc' = "find" /\ UNCHANGED exit_code
    /\ UNCHANGED filter_vars
    /\ UNCHANGED <<pydicom_ok, has_arg, dir_status, tree, content, dicom_files,
                   idx, cur, results, events, report>>

\* dicom_files = find_dicom_files(directory); if not dicom_files: sys.exit(0);
\* results = []
FindFiles ==
    /\ pc = "find"
    /\ dicom_files' = find_dicom_files(tree)
    /\ events' = Append(events, [ev |-> "find"])
    /\ IF dicom_files' = <<>>
       THEN Exit(0)
       ELSE pc' = "loop" /\ UNCHANGED exit_code
    /\ results' = <<>>
    /\ UNCHANGED filter_vars
    /\ UNCHANGED <<pydicom_ok, has_arg, dir_status, tree, content, idx, cur, report>>

\* a loop that counts the files from 0
Progress_ZeroBased ==
    /\ pc = "loop"
    /\ idx < Len(dicom_files)
    /\ idx' = idx + 1
    /\ events' = Append(events, [ev |-> "progress", current |-> idx,
                                 total |-> Len(dicom_files),
                                 filename |-> Name(dicom_files[idx'])])
    /\ pc' = "extract"
    /\ UNCHANGED filter_vars
    /\ UNCHANGED <<pydicom_ok, has_arg, dir_status, tree, content, dicom_files,
                   cur, results, exit_code, report>>

\* for idx, dicom_file in enumerate(dicom_files, start=1):
\*     display_progress(idx, len(dicom_files), dicom_file.name)
Progress ==
    /\ pc = "loop"
    /\ idx < Len(dicom_files)
    /\ idx' = idx + 1
    /\ events' = Append(events, [ev |-> "progress", current |-> idx',
                                 total |-> Len(dicom_files),
                                 filename |-> Name(dicom_files[idx'])])
    /\ pc' = "extract"
    /\ UNCHANGED filter_vars
    /\ UNCHANGED <<pydicom_ok, has_arg, dir_status, tree, content, dicom_files,
                   cur, results, exit_code, report>>

\* a loop without the try/except of process_single_image: a decode failure
\* leaves the loop
Extract_Unguarded ==
    /\ pc = "extract"
    /\ cur' = process_single_image(pydicom_ok, tree, content, dicom_files[idx])
    /\ events' = Append(events, [ev |-> "extract", path |-> dicom_files[idx]])
    /\ IF cur'[1]
       THEN pc' = "append" /\ UNCHANGED exit_code
       ELSE pc' = "raised" /\ exit_code' = 1
    /\ UNCHANGED filter_vars
    /\ UNCHANGED <<pydicom_ok, has_arg, dir_status, tree, content, dicom_files,
                   idx, results, report>>

\* success, result = process_single_image(dicom_file)
Extract ==
    /\ pc = "extract"
    /\ cur' = process_single_image(pydicom_ok, tree, content, dicom_files[idx])
    /\ events' = Append(events, [ev |-> "extract", path |-> dicom_files[idx]])
    /\ pc' = "append"
    /\ UNCHANGED filter_vars
    /\ UNCHANGED <<pydicom_ok, has_arg, dir_status, tree, content, dicom_files,
                   idx, results, exit_code, report>>

\* a loop that keeps only the successful outcomes
AppendOutcome_SuccessOnly ==
    /\ pc = "append"
    /\ results' = IF cur[1] THEN Append(results, cur) ELSE results
    /\ events' = Append(events, [ev |-> "append", index |-> idx])
    /\ pc' = "loop"
    /\ UNCHANGED filter_vars
    /\ UNCHANGED <<pydicom_ok, has_arg, dir_status, tree, content, dicom_files,
                   idx, cur, exit_code, report>>

\* results.append((success, result))
AppendOutcome ==
    /\ pc = "append"
    /\ results' = Append(results, cur)
    /\ events' = Append(events, [ev |-> "append", index |-> idx])
    /\ pc' = "loop"
    /\ UNCHANGED filter_vars
    /\ UNCHANGED <<pydicom_ok, has_arg, dir_status, tree, content, dicom_files,
                   idx, cur, exit_code, report>>

\* the end of the loop: display_summary(results, len(dicom_files)), then the
\* end of main; an exception that display_summary raises ends the run
Summary ==
    /\ pc = "loop"
    /\ idx = Len(dicom_files)
    /\ report' = display_summary(results, Len(dicom_files))
    /\ events' = Append(events, [ev |-> "summary"])
    /\ IF report'.raised = ""
       THEN pc' = "done" /\ exit_code' = 0
       ELSE pc' = "raised" /\ exit_code' = 1
    /\ UNCHANGED filter_vars
    /\ UNCHANGED <<pydicom_ok, has_arg, dir_status, tree, content, dicom_files,
                   idx, cur, results>>

Next ==
    \/ CheckPydicom
    \/ CheckArgs
    \/ ValidateDir
    \/ FindFiles
    \/ Progress
    \/ Extract
    \/ AppendOutcome
    \/ Summary

Spec == Init /\ [][Next]_vars

----------------------------------------------------------------------------
(* Calls of process_single_image and display_summary from other code: any  *)
(* path, in any interpreter                                                *)

InitExtract ==
    /\ pc = "call"
    /\ pydicom_ok \in BOOLEAN
    /\ has_arg = TRUE
    /\ dir_status = "dir"
    /\ tree \in Trees
    /\ content \in ContentsOf(tree)
    /\ dicom_files \in {<<p>> : p \in AllPaths}
    /\ idx = 1
    /\ cur = NoResult
    /\ results = <<>>
    /\ events = <<>>
    /\ exit_code = Running
    /\ report = [raised |-> "none"]
    /\ FilterIdle

\* results = [process_single_image(path)]
CallExtract ==
    /\ pc = "call"
    /\ cur' = process_single_image(pydicom_ok, tree, content, dicom_files[1])
    /\ results' = <<cur'>>
    /\ events' = Append(events, [ev |-> "extract", path |-> dicom_files[1]])
    /\ pc' = "called"
    /\ UNCHANGED filter_vars
    /\ UNCHANGED <<pydicom_ok, has_arg, dir_status, tree, content, dicom_files,
                   idx, exit_code, report>>

\* display_summary(results, len(results))
CallSummary ==
    /\ pc = "called"
    /\ report' = display_summary(results, Len(results))
    /\ events' = Append(events, [ev |-> "summary"])
    /\ pc' = IF report'.raised = "" THEN "done" ELSE "raised"
    /\ UNCHANGED filter_vars
    /\ UNCHANGED <<pydicom_ok, has_arg, dir_status, tree, content, dicom_files,
                   idx, cur, results, exit_code>>

NextExtract == CallExtract \/ CallSummary

SpecExtract == InitExtract /\ [][NextExtract]_vars

----------------------------------------------------------------------------
(* Calls of display_summary from other code, on result lists of any length *)

\* at most this many outcomes in a result list handed to display_summary
MaxResults == 12

\* the name 'a' * n
NameOfLength(n) == [j \in 1..n |-> "a"]

\* the outcomes of the n-th file of such a list: its Failure, or its Success
FailureOf(n) == <<FALSE, [error |-> "Invalid DICOM file", filename |-> NameOfLength(n)]>>

SuccessOf(n) ==
    <<TRUE, [filename          |-> NameOfLength(n),
             patient_id        |-> "P1",
             study_uid         |-> "S1",
             series_number     |-> "1",
             instance_number   |-> "1",
             modality          |-> "MR",
             study_description |-> "Brain"]>>

InitSummary ==
    /\ pc = "called"
    /\ pydicom_ok = TRUE
    /\ has_arg = TRUE
    /\ dir_status = "dir"
    /\ tree = {}
    /\ content = <<>>
    /\ MainLocals
    /\ FilterIdle

\* the caller appends the outcome of one more file to the list
AddOutcome ==
    /\ pc = "called"
    /\ Len(results) < MaxResults
    /\ \E o \in {FailureOf(Len(results) + 1), SuccessOf(Len(results) + 1)} :
          results' = Append(results, o)
    /\ UNCHANGED filter_vars
    /\ UNCHANGED <<pc, pydicom_ok, has_arg, dir_status, tree, content, dicom_files,
                   idx, cur, events, exit_code, report>>

NextSummary == AddOutcome \/ CallSummary

SpecSummary == InitSummary /\ [][NextSummary]_vars

----------------------------------------------------------------------------
(* Properties of the batch loop *)

\* the outcome of the i-th discovered file
OutcomeOf(i) == process_single_image(pydicom_ok, tree, content, dicom_files[i])

InLoop == pc \in {"loop", "extract", "append"}

\* the number of files whose outcome has been appended
Appended == IF pc \in {"extract", "append"} THEN idx - 1 ELSE idx

\* C1: at every point of the batch loop the outcome list holds the outcomes
\* of exactly the first k files, in order, and when the loop has finished it
\* has one outcome per discovered file, the i-th being that of the i-th file
C1_OutcomesFollowFiles ==
    /\ InLoop =>
          /\ Len(results) = Appended
          /\ \A i \in 1..Len(results) : results[i] = OutcomeOf(i)
    /\ pc \in {"done", "raised"} =>
          /\ Len(results) = Len(dicom_files)
          /\ \A i \in 1..Len(dicom_files) : results[i] = OutcomeOf(i)

C1_Witness ==
    /\ pc = "done"
    /\ Len(results) = 3
    /\ \E i, j \in 1..3 : results[i][1] /\ ~results[j][1]

\* whether the decoder fails on the i-th discovered file
DecodeFails(i) == ~dcmread(tree, content, dicom_files[i]).ok

\* the outcome of a file in a file system that holds nothing else
Alone(p) ==
    process_single_image(TRUE, tree \cap {p},
                         [q \in {x \in tree \cap {p} : is_file(x)} |-> content[q]], p)

\* the number of extractions of path p among the events
Extractions(p) ==
    Cardinality({n \in 1..Len(events) :
                    events[n].ev = "extract" /\ events[n].path = p})

\* the scenario of three files, the first two of study "S1", the third malformed
ThreeFileScenario ==
    /\ Len(dicom_files) = 3
    /\ \A i \in 1..3 : is_file(dicom_files[i]) /\ Suffix(dicom_files[i]) # <<>>
    /\ \A i \in 1..2 :
          /\ ~DecodeFails(i)
          /\ Get(dcmread(tree, content, dicom_files[i]).ds, "StudyInstanceUID", NA) = "S1"
    /\ DecodeFails(3)

\* C2: a decode failure never ends the batch; when the batch is done every
\* file whose decode fails has a Failure outcome, every file has been
\* extracted and has the outcome it has on its own, and in the three-file
\* scenario the outcomes are Success, Success, Failure with the one group
\* "S1" of the two successful records
C2_Isolation ==
    /\ pc # "raised"
    /\ pc = "done" =>
          /\ Len(results) = Len(dicom_files)
          /\ \A i \in 1..Len(dicom_files) :
                /\ DecodeFails(i) => ~results[i][1]
                /\ results[i] = Alone(dicom_files[i])
                /\ Extractions(dicom_files[i]) >= 1
          /\ ThreeFileScenario =>
                /\ <<results[1][1], results[2][1], results[3][1]>> = <<TRUE, TRUE, FALSE>>
                /\ report.studies =
                      << [key |-> "S1", images |-> <<results[1][2], results[2][2]>>] >>

C2_Witness == pc = "done" /\ ThreeFileScenario

\* C3: every Failure that process_single_image returns carries an error
\* message and the base name of the file, and the summary of its outcomes
\* reads the file name of every Failure without raising
C3_FailureCarriesFilename ==
    /\ pc \in {"called", "done", "raised"} =>
          (~cur[1] =>
              /\ "error" \in DOMAIN cur[2]
              /\ "filename" \in DOMAIN cur[2]
              /\ cur[2].filename = Name(dicom_files[1]))
    /\ pc # "raised"

\* whether the i-th discovered file decodes and exposes no study identifier
NoStudyId(i) ==
    /\ ~DecodeFails(i)
    /\ "StudyInstanceUID" \notin DOMAIN dcmread(tree, content, dicom_files[i]).ds

\* the places <<group, position>> of an ordered map at which record r is stored
PlacesOf(studies, r) ==
    {gn \in UNION {{<<g, n>> : n \in 1..Len(studies[g].images)} : g \in 1..Len(studies)} :
        studies[gn[1]].images[gn[2]] = r}

\* the keys of an ordered map
Keys(studies) == {studies[g].key : g \in 1..Len(studies)}

\* C4: when the batch is done, a successfully extracted record whose file
\* exposes no study identifier is stored in no group, and no group has the
\* "not available" sentinel as its key
C4_NoIdentifierExcluded ==
    pc = "done" =>
        /\ \A i \in 1..Len(dicom_files) :
              NoStudyId(i) => PlacesOf(report.studies, results[i][2]) = {}
        /\ NA \notin Keys(report.studies)

\* the records handed to group_by_study by display_summary
SuccessfulResults == Select(results, TRUE)

\* whether a record has a study identifier: the field holds a value other
\* than the sentinel and the empty string
HasStudyId(r) ==
    /\ "study_uid" \in DOMAIN r
    /\ r.study_uid # NA
    /\ r.study_uid # ""

\* C5: in the groups that display_summary builds, every record of the group
\* with key K has study identifier K, every input record that has a study
\* identifier is stored once, in one group, and there are as many groups as
\* distinct non-empty study identifiers among the input records
C5_GroupsPartitionByStudy ==
    pc = "done" =>
        LET studies == report.studies
            input   == SuccessfulResults
        IN  /\ \A g \in 1..Len(studies) : \A n \in 1..Len(studies[g].images) :
                  studies[g].images[n].study_uid = studies[g].key
            /\ \A i \in 1..Len(input) :
                  HasStudyId(input[i]) =>
                      Cardinality(PlacesOf(studies, input[i])) =
                          Cardinality({j \in 1..Len(input) : input[j] = input[i]})
            /\ Len(studies) =
                  Cardinality({input[i].study_uid : i \in {j \in 1..Len(input) :
                                                             HasStudyId(input[j])}})

\* the candidates of the specification of find_dicom_files: the regular
\* files with a recognized extension, and the regular files without
\* extension other than .DS_Store
Candidates(t) ==
    {p \in t : /\ is_file(p)
               /\ \/ \E k \in 1..Len(extensions) : Suffix(p) = extensions[k]
                  \/ Suffix(p) = <<>> /\ Name(p) # DS_Store}

Range(s) == {s[i] : i \in 1..Len(s)}

\* C6: the list returned by find_dicom_files holds no directory and no path
\* that is not below the root, and as a set it is the set of candidates
C6_DiscoveryExact ==
    pc \in {"loop", "extract", "append", "done"} =>
        /\ \A i \in 1..Len(dicom_files) :
              is_file(dicom_files[i]) /\ dicom_files[i] \in tree
        /\ Range(dicom_files) = Candidates(tree)


----------------------------------------------------------------------------
(* custom_filter.py: process_with_filters *)

\* the values that the batch variables keep while the filters run
BatchIdle ==
    /\ pydicom_ok = TRUE
    /\ has_arg = TRUE
    /\ dir_status = "file"
    /\ tree = {}
    /\ content = <<>>
    /\ MainLocals

batch_vars == <<pydicom_ok, has_arg, dir_status, tree, content, dicom_files,
                idx, cur, results, exit_code>>

\* a call process_with_filters(dicom_path, enable_contrast=...) on a file
\* that holds some pixel array and may fail to load
InitFilter ==
    /\ pc = "load"
    /\ image \in Images
    /\ load_ok \in BOOLEAN
    /\ enable_contrast \in BOOLEAN
    /\ percentiles = <<DefaultPercentileLow, DefaultPercentileHigh>>
    /\ pixel_data = NoArray
    /\ original_stats = [nan |-> TRUE, shape |-> <<1, 0>>]
    /\ filtered = <<>>
    /\ comparisons = <<>>
    /\ BatchIdle

\* the record of one call of a filter: its name and the array passed to it
FilterCall(name, input) == [ev |-> "filter", filter |-> name, input |-> input]

\* pixel_data, metadata = load_dicom_pixel_data(dicom_path);
\* if pixel_data is None: ... return; original_stats = compute_image_statistics(pixel_data)
Load ==
    /\ pc = "load"
    /\ events' = Append(events, [ev |-> "load"])
    /\ IF load_ok
       THEN /\ pixel_data' = image
            /\ original_stats' = compute_image_statistics(image)
            /\ pc' = "gaussian"
       ELSE /\ UNCHANGED <<pixel_data, original_stats>>
            /\ pc' = "returned"
    /\ UNCHANGED <<image, load_ok, enable_contrast, percentiles, filtered,
                   comparisons, report>>
    /\ UNCHANGED batch_vars

\* one filter stage of process_with_filters: the filter is applied to
\* 'input', its statistics are computed and compared with 'baseline'
Stage(name, input, output, baseline, next) ==
    /\ events' = Append(events, FilterCall(name, input))
    /\ filtered' = Append(filtered, [filter |-> name, array |-> output])
    /\ comparisons' = Append(comparisons,
           display_filter_comparison(baseline, compute_image_statistics(output), name))
    /\ pc' = next
    /\ UNCHANGED <<image, load_ok, enable_contrast, percentiles, pixel_data,
                   original_stats, report>>
    /\ UNCHANGED batch_vars

\* gaussian_filtered = apply_gaussian_filter(pixel_data, sigma=gaussian_sigma) ...
GaussianStage ==
    /\ pc = "gaussian"
    /\ Stage("Gaussian Blur", pixel_data, apply_gaussian_filter(pixel_data),
             original_stats, "edge")

\* a pipeline that chains the filters: edge detection of the smoothed array
EdgeStage_Chained ==
    /\ pc = "edge"
    /\ Stage("Edge Detection", filtered[1].array,
             apply_edge_detection(filtered[1].array), original_stats,
             IF enable_contrast THEN "contrast" ELSE "summary")

\* edge_filtered = apply_edge_detection(pixel_data, sigma=edge_sigma) ...
EdgeStage ==
    /\ pc = "edge"
    /\ Stage("Edge Detection", pixel_data, apply_edge_detection(pixel_data),
             original_stats, IF enable_contrast THEN "contrast" ELSE "summary")

\* if enable_contrast: contrast_enhanced = apply_contrast_enhancement(pixel_data) ...
ContrastStage ==
    /\ pc = "contrast"
    /\ Stage("Contrast Enhancement", pixel_data,
             apply_contrast_enhancement(pixel_data, percentiles[1], percentiles[2]),
             original_stats, "summary")

\* print(f"Filters applied:          3")
FiltersAppliedPrinted == 3

\* the processing summary at the end of process_with_filters
ProcessingSummary ==
    /\ pc = "summary"
    /\ report' = [shape           |-> original_stats.shape,
                  filters_applied |-> FiltersAppliedPrinted,
                  contrast        |-> IF enable_contrast THEN "Enabled" ELSE "Disabled"]
    /\ events' = Append(events, [ev |-> "summary"])
    /\ pc' = "returned"
    /\ UNCHANGED filter_vars
    /\ UNCHANGED batch_vars

NextFilter ==
    \/ Load
    \/ GaussianStage
    \/ EdgeStage
    \/ ContrastStage
    \/ ProcessingSummary

SpecFilter == InitFilter /\ [][NextFilter]_vars

----------------------------------------------------------------------------
(* custom_filter.py: main *)

\* the interpreter, the command line and the file in which main runs:
\* pydicom_ok says that pydicom and scipy can both be imported, dir_status
\* what the path names; only a regular file can be loaded
InitFilterMain ==
    /\ pc = "start"
    /\ pydicom_ok \in BOOLEAN
    /\ has_arg \in BOOLEAN
    /\ dir_status \in {"absent", "file", "dir"}
    /\ (~has_arg => dir_status = "absent")
    /\ tree = {}
    /\ content = <<>>
    /\ MainLocals
    /\ image \in Images
    /\ load_ok \in BOOLEAN
    /\ (dir_status # "file" => ~load_ok)
    /\ enable_contrast = TRUE
    /\ percentiles = <<DefaultPercentileLow, DefaultPercentileHigh>>
    /\ pixel_data = NoArray
    /\ original_stats = [nan |-> TRUE, shape |-> <<1, 0>>]
    /\ filtered = <<>>
    /\ comparisons = <<>>

\* try: import pydicom; import scipy / except ImportError: ... sys.exit(1)
FilterCheckDependencies ==
    /\ pc = "start"
    /\ IF pydicom_ok
       THEN pc' = "args" /\ UNCHANGED exit_code
       ELSE Exit(1)
    /\ UNCHANGED filter_vars
    /\ UNCHANGED <<pydicom_ok, has_arg, dir_status, tree, content, dicom_files,
                   idx, cur, results, events, report>>

\* if len(sys.argv) < 2: ... sys.exit(0)
FilterCheckArgs ==
    /\ pc = "args"
    /\ IF has_arg
       THEN pc' = "exists" /\ UNCHANGED exit_code
       ELSE Exit(0)
    /\ UNCHANGED filter_vars
    /\ UNCHANGED <<pydicom_ok, has_arg, dir_status, tree, content, dicom_files,
                   idx, cur, results, events, report>>

\* if not dicom_path.exists(): ... sys.exit(1);
\* process_with_filters(dicom_path, gaussian_sigma, edge_sigma, enable_contrast=True)
FilterCheckExists ==
    /\ pc = "exists"
    /\ IF dir_status = "absent"
       THEN Exit(1)
       ELSE pc' = "load" /\ UNCHANGED exit_code
    /\ UNCHANGED filter_vars
    /\ UNCHANGED <<pydicom_ok, has_arg, dir_status, tree, content, dicom_files,
                   idx, cur, results, events, report>>

\* process_with_filters has returned: print("\nProcessing complete!"), and
\* main ends, so the interpreter ends with status 0
FilterMainEnd ==
    /\ pc = "returned"
    /\ events' = Append(events, [ev |-> "complete"])
    /\ pc' = "done"
    /\ exit_code' = 0
    /\ UNCHANGED filter_vars
    /\ UNCHANGED <<pydicom_ok, has_arg, dir_status, tree, content, dicom_files,
                   idx, cur, results, report>>

NextFilterMain ==
    \/ FilterCheckDependencies
    \/ FilterCheckArgs
    \/ FilterCheckExists
    \/ Load
    \/ GaussianStage
    \/ EdgeStage
    \/ ContrastStage
    \/ ProcessingSummary
    \/ FilterMainEnd

SpecFilterMain == InitFilterMain /\ [][NextFilterMain]_vars

----------------------------------------------------------------------------
(* custom_filter.py: calls of apply_contrast_enhancement from other code,  *)
(* with any percentiles                                                    *)

PercentilePairs == {<<DefaultPercentileLow, DefaultPercentileHigh>>,
                    <<0, 100>>, <<25, 75>>, <<0, 50>>}

InitContrast ==
    /\ pc = "call"
    /\ image \in Images
    /\ load_ok = TRUE
    /\ enable_contrast = TRUE
    /\ percentiles \in PercentilePairs
    /\ pixel_data = NoArray
    /\ original_stats = [nan |-> TRUE, shape |-> <<1, 0>>]
    /\ filtered = <<>>
    /\ comparisons = <<>>
    /\ BatchIdle

\* enhanced = apply_contrast_enhancement(image, percentile_low, percentile_high)
CallContrast ==
    /\ pc = "call"
    /\ filtered' = << [filter |-> "Contrast Enhancement",
                       array  |-> apply_contrast_enhancement(image, percentiles[1],
                                                             percentiles[2])] >>
    /\ events' = Append(events, FilterCall("Contrast Enhancement", image))
    /\ pc' = "called"
    /\ UNCHANGED <<image, load_ok, enable_contrast, percentiles, pixel_data,
                   original_stats, comparisons, report>>
    /\ UNCHANGED batch_vars

\* statistics of the returned array, as a caller computes them
CallStatistics ==
    /\ pc = "called"
    /\ original_stats' = compute_image_statistics(filtered[1].array)
    /\ pc' = "measured"
    /\ UNCHANGED <<image, load_ok, enable_contrast, percentiles, pixel_data,
                   filtered, comparisons, report, events>>
    /\ UNCHANGED batch_vars

NextContrast == CallContrast \/ CallStatistics

SpecContrast == InitContrast /\ [][NextContrast]_vars

----------------------------------------------------------------------------
(* Properties of the filters *)

\* the filters of process_with_filters, in the order of the specification
FilterOrder == <<"Gaussian Blur", "Edge Detection", "Contrast Enhancement">>

\* the array that filter k returns for the array stored in the file
OnBaseline(k) ==
    IF k = 1 THEN apply_gaussian_filter(image)
    ELSE IF k = 2 THEN apply_edge_detection(image)
    ELSE apply_contrast_enhancement(image, DefaultPercentileLow, DefaultPercentileHigh)

\* C7: every filter of process_with_filters is applied to the loaded array,
\* which no filter changes; the results come in the order smoothing, edge
\* detection, contrast enhancement; each result is what the filter returns
\* for the loaded array, whatever ran before; and every comparison is made
\* with the statistics of the loaded array
C7_FiltersIndependent ==
    /\ pc \notin {"load", "returned"} => pixel_data = image
    /\ \A n \in 1..Len(events) :
          events[n].ev = "filter" => events[n].input = image
    /\ Len(filtered) = Len(comparisons)
    /\ Len(filtered) <= Len(FilterOrder)
    /\ \A k \in 1..Len(filtered) :
          /\ filtered[k].filter = FilterOrder[k]
          /\ filtered[k].array = OnBaseline(k)
          /\ comparisons[k].filter = FilterOrder[k]
          /\ comparisons[k].original = compute_image_statistics(image)
          /\ comparisons[k].filtered = compute_image_statistics(OnBaseline(k))

C7_Witness ==
    /\ pc = "returned"
    /\ Len(filtered) = 3
    /\ apply_edge_detection(image) # apply_edge_detection(apply_gaussian_filter(image))
    /\ ~filtered[3].array.nan

Defined(change) == change.kind \notin {"nan", "inf", "-inf"}

\* whether the mean, or the standard deviation, of statistics o is zero
ZeroBaseline(o) == ~o.nan /\ (o.mean[1] = 0 \/ o.var[1] = 0)

\* C8: when the mean or the standard deviation of the baseline is zero, no
\* comparison printed by display_filter_comparison holds a NaN or an
\* infinite percent change
C8_ZeroBaselineHandled ==
    \A k \in 1..Len(comparisons) :
        ZeroBaseline(comparisons[k].original) =>
            /\ Defined(comparisons[k].mean_change)
            /\ Defined(comparisons[k].std_change)

\* C9: the array that apply_contrast_enhancement returns in
\* process_with_filters never holds NaN or infinite values, also when the
\* low and high percentile values of the image are equal
C9_DegenerateRangeGuarded ==
    \A k \in 1..Len(filtered) :
        filtered[k].filter = "Contrast Enhancement" => ~filtered[k].array.nan

\* C10: when the low and high percentile values of the image differ, every
\* sample of the result of apply_contrast_enhancement lies in [0, 1], the
\* samples at or below the low value give 0, those at or above the high
\* value give 1, those in between are mapped linearly, and [0, 50, 100] with
\* percentiles 0 and 100 gives [0, 1/2, 1]
C10_ContrastRange ==
    pc \in {"called", "measured"} =>
        LET a      == filtered[1].array
            p_low  == Percentile100(image.px, percentiles[1])
            p_high == Percentile100(image.px, percentiles[2])
        IN  p_low # p_high =>
              /\ ~a.nan
              /\ Len(a.px) = Len(image.px)
              /\ \A i \in 1..Len(a.px) :
                    /\ 0 <= a.px[i] /\ a.px[i] <= a.scale
                    /\ 100 * image.px[i] <= p_low => a.px[i] = 0
                    /\ 100 * image.px[i] >= p_high => a.px[i] = a.scale
                    /\ a.px[i] * (p_high - p_low) =
                          (Clip(100 * image.px[i], p_low, p_high) - p_low) * a.scale
              /\ (image.px = <<0, 50, 100>> /\ percentiles = <<0, 100>>) =>
                    /\ a.px[1] = 0
                    /\ 2 * a.px[2] = a.scale
                    /\ a.px[3] = a.scale

C10_Witness ==
    /\ pc = "called"
    /\ image.px = <<0, 50, 100>>
    /\ percentiles = <<0, 100>>
    /\ ~filtered[1].array.nan

----------------------------------------------------------------------------
(* Properties of the summary *)

\* the file names of the Failure outcomes of the result list, in order
FailedNames == [i \in 1..Len(Select(results, FALSE)) |-> Select(results, FALSE)[i].filename]

Min(a, b) == IF a < b THEN a ELSE b

\* C11: the error report of display_summary prints at most 10 errors in
\* detail, which are the first Failure outcomes in processing order, and
\* when there are more than 10 failures it reports the rest as the one
\* count, failures minus 10
C11_ErrorReportBounded ==
    (pc = "done" /\ report.raised = "") =>
        /\ Len(report.errors) = Min(Len(FailedNames), 10)
        /\ \A i \in 1..Len(report.errors) : report.errors[i][1] = FailedNames[i]
        /\ Len(FailedNames) > 10 => report.more = Len(FailedNames) - 10
        /\ Len(FailedNames) <= 10 => report.more = 0

C11_Witness ==
    /\ pc = "done"
    /\ report.raised = ""
    /\ Len(FailedNames) = 12
    /\ report.more = 2

----------------------------------------------------------------------------
(* Properties of the entry point *)

\* a precondition of the batch run does not hold
PreconditionFails ==
    \/ ~pydicom_ok
    \/ has_arg /\ dir_status \in {"absent", "file"}

\* C12: when the decoder library is unavailable, or the given path does not
\* exist or is not a directory, the run never discovers files, never
\* notifies progress, never extracts and never produces an outcome, and it
\* ends only with the failure status
C12_NoWorkWithoutPreconditions ==
    PreconditionFails =>
        /\ pc \in {"start", "args", "validate", "exit"}
        /\ events = <<>>
        /\ dicom_files = <<>>
        /\ cur = NoResult
        /\ results = <<>>
        /\ report = [raised |-> "none"]
        /\ pc = "exit" => exit_code = 1
        /\ pc # "exit" => exit_code = Running

C12_Witness ==
    /\ pc = "exit"
    /\ exit_code = 1
    /\ pydicom_ok
    /\ has_arg
    /\ dir_status = "file"

----------------------------------------------------------------------------
(* Properties of the grouping and of the study lines *)

\* the records of a sequence that carry study identifier k, in the order of
\* the sequence
WithStudy(rs, k) ==
    LET Carries(r) == r.study_uid = k
    IN  SelectSeq(rs, Carries)

\* the place in a sequence of the first record that carries study
\* identifier k
FirstPlace(rs, k) ==
    CHOOSE i \in 1..Len(rs) :
        /\ rs[i].study_uid = k
        /\ \A j \in 1..(i - 1) : rs[j].study_uid # k

\* C13: the groups that group_by_study builds are enumerated in the order in
\* which their study identifier first appears among the input records, and
\* the records of each group are the input records with that identifier in
\* their input order
C13_GroupingPreservesOrder ==
    pc = "done" =>
        /\ \A g \in 1..Len(report.studies) :
              report.studies[g].images = WithStudy(SuccessfulResults, report.studies[g].key)
        /\ \A g, h \in 1..Len(report.studies) :
              g < h => FirstPlace(SuccessfulResults, report.studies[g].key)
                           < FirstPlace(SuccessfulResults, report.studies[h].key)

\* three records: the second opens a second group, the third joins the
\* first group behind a different record
C13_Witness ==
    /\ pc = "done"
    /\ Len(SuccessfulResults) = 3
    /\ Len(report.studies) = 2
    /\ SuccessfulResults[1].study_uid = SuccessfulResults[3].study_uid
    /\ SuccessfulResults[1] # SuccessfulResults[3]
    /\ report.studies[1].images = <<SuccessfulResults[1], SuccessfulResults[3]>>
    /\ report.studies[2].images = <<SuccessfulResults[2]>>

----------------------------------------------------------------------------
(* Properties of the order of the steps of the batch loop *)

\* the three events of the i-th entry of the file list
EventsOfFile(i) ==
    << [ev |-> "progress", current |-> i, total |-> Len(dicom_files),
        filename |-> Name(dicom_files[i])],
       [ev |-> "extract", path |-> dicom_files[i]],
       [ev |-> "append", index |-> i] >>

\* the events of the loop when it has got through the entries before the
\* i-th and through `steps` of the three steps of the i-th
RECURSIVE LoopEvents(_, _)
LoopEvents(i, steps) ==
    IF i = 0 THEN <<>>
    ELSE LoopEvents(i - 1, 3) \o SubSeq(EventsOfFile(i), 1, steps)

\* the events that the discovery and the loop have produced at the present
\* position of main
EventsSoFar ==
    <<[ev |-> "find"]>> \o
        (IF pc = "extract" THEN LoopEvents(idx, 1)
         ELSE IF pc = "append" THEN LoopEvents(idx, 2)
         ELSE LoopEvents(idx, 3))

\* C14: for each entry of the file list in order, the loop notifies the
\* progress with the 1-based index, the total and the file's name, then
\* extracts that file, then appends its outcome; the notification of entry
\* i+1 follows the append of entry i, each entry is extracted once, and the
\* notified indices are 1..total in increasing order
C14_LoopStepsInOrder ==
    /\ InLoop => events = EventsSoFar
    /\ pc = "done" =>
          /\ idx = Len(dicom_files)
          /\ events = Append(EventsSoFar, [ev |-> "summary"])
          /\ Len(events) = 3 * Len(dicom_files) + 2

C14_Witness ==
    /\ pc = "done"
    /\ Len(dicom_files) = 3
    /\ events[2].ev = "progress" /\ events[2].current = 1 /\ events[2].total = 3
    /\ events[3].ev = "extract"
    /\ events[4].ev = "append"
    /\ events[8].ev = "progress" /\ events[8].current = 3
    /\ events[8].filename = Name(dicom_files[3])
    /\ events[10].ev = "append" /\ events[10].index = 3

----------------------------------------------------------------------------
(* Properties of the filter entry point *)

\* the number of events of one kind
EventCount(kind) == Cardinality({n \in 1..Len(events) : events[n].ev = kind})

\* the load of the pixel data has been attempted and has failed
LoadFailed == ~load_ok /\ EventCount("load") > 0

\* when the load has failed it was attempted once, no filter has run and
\* no statistics or comparison has been produced
LoadFailureStopsProcessing ==
    LoadFailed =>
        /\ EventCount("load") = 1
        /\ EventCount("filter") = 0
        /\ EventCount("summary") = 0
        /\ pixel_data = NoArray
        /\ filtered = <<>>
        /\ comparisons = <<>>
        /\ pc \in {"returned", "done"}

\* C15: in filter mode a failure to load the pixel data is fatal: the load
\* is attempted once, no filter is applied, no statistics or comparison is
\* produced, and the invocation ends failed, without reporting that the
\* processing is complete
C15_LoadFailureFatal ==
    /\ LoadFailureStopsProcessing
    /\ LoadFailed =>
          /\ EventCount("complete") = 0
          /\ pc = "done" => exit_code # 0

----------------------------------------------------------------------------
(* Properties of the study lines of the summary *)

\* the first successful record, in processing order, with study identifier k
FirstRecord(k) == SuccessfulResults[FirstPlace(SuccessfulResults, k)]

\* C16: the line that the summary prints for a group shows the description,
\* the patient identifier and the modality of the first record of the group
\* in processing order, whatever the later records carry, and its image
\* count is the number of records of the group
C16_FirstRecordWins ==
    pc = "done" =>
        /\ Len(report.lines) = Len(report.studies)
        /\ \A g \in 1..Len(report.studies) :
              LET k == report.studies[g].key
              IN  /\ report.studies[g].images # <<>>
                  /\ report.lines[g].study_uid = k
                  /\ report.lines[g].study_desc = FirstRecord(k).study_description
                  /\ report.lines[g].patient_id = FirstRecord(k).patient_id
                  /\ report.lines[g].modality = FirstRecord(k).modality
                  /\ report.lines[g].images = Len(report.studies[g].images)

\* a group of two records that differ in all three fields
C16_Witness ==
    /\ pc = "done"
    /\ \E g \in 1..Len(report.studies) :
          /\ Len(report.studies[g].images) = 2
          /\ report.lines[g].images = 2
          /\ report.studies[g].images[1].study_description
                 # report.studies[g].images[2].study_description
          /\ report.studies[g].images[1].patient_id # report.studies[g].images[2].patient_id
          /\ report.studies[g].images[1].modality # report.studies[g].images[2].modality
          /\ report.lines[g].modality = report.studies[g].images[1].modality

----------------------------------------------------------------------------
(* Properties of the counts of the summary *)

\* the sum of the sizes of the groups of an ordered map
GroupedCount(studies) ==
    Cardinality(UNION {{<<g, n>> : n \in 1..Len(studies[g].images)} :
                          g \in 1..Len(studies)})

\* the number of outcomes of the result list with the given success flag
OutcomeCount(flag) == Cardinality({i \in 1..Len(results) : results[i][1] = flag})

\* the counts of the summary agree with the file list and the outcome list
CountsAgree ==
    pc = "done" =>
        /\ report.total = Len(dicom_files)
        /\ report.total > 0
        /\ report.successful + report.failed = report.total
        /\ report.total = Len(results)
        /\ report.successful = OutcomeCount(TRUE)
        /\ report.failed = OutcomeCount(FALSE)

\* C17: in every batch run that reaches the summary the total is greater
\* than zero, successful + failed is the total and the length of the outcome
\* list, failed is the number of Failure outcomes, and the group sizes add
\* up to the number of Success outcomes that have a study identifier
C17_CountsConsistent ==
    /\ CountsAgree
    /\ pc = "done" =>
          GroupedCount(report.studies) =
              Cardinality({i \in 1..Len(results) :
                              results[i][1] /\ HasStudyId(results[i][2])})

----------------------------------------------------------------------------
(* Properties of the order of the discovered files *)

\* main holds the list that find_dicom_files returned
Discovered == pc \in {"loop", "extract", "append", "done"}

\* the list of discovered files is in ascending path order
DiscoverySorted ==
    Discovered =>
        \A i, j \in 1..Len(dicom_files) :
            i < j => ~PathLess(dicom_files[j], dicom_files[i])

\* C18: the list that find_dicom_files returns holds every path at most
\* once and is in ascending path order, for every tree, with or without a
\* file named ".dcm" or a hidden file without extension, so that no file is
\* extracted twice in a batch run
C18_DiscoveryDistinctSorted ==
    /\ DiscoverySorted
    /\ Discovered =>
          \A i, j \in 1..Len(dicom_files) :
              i < j => dicom_files[i] # dicom_files[j]
    /\ pc = "done" => \A p \in Range(dicom_files) : Extractions(p) = 1

----------------------------------------------------------------------------
(* Properties of the processing summary of the filters *)

\* the names of the filters that have run, in order
FiltersRun == [n \in 1..Len(filtered) |-> filtered[n].filter]

\* the processing summary is printed only after every enabled filter has run
SummaryAfterFilters ==
    EventCount("summary") > 0 =>
        FiltersRun = IF enable_contrast
                     THEN <<"Gaussian Blur", "Edge Detection", "Contrast Enhancement">>
                     ELSE <<"Gaussian Blur", "Edge Detection">>

\* C19: the number of filters that the processing summary reports as
\* applied is the number of filters that ran in the invocation, three with
\* contrast enhancement and two without, and the summary comes after every
\* enabled filter has run
C19_FiltersAppliedCount ==
    /\ SummaryAfterFilters
    /\ EventCount("summary") > 0 =>
          /\ report.filters_applied = Len(filtered)
          /\ report.filters_applied = IF enable_contrast THEN 3 ELSE 2

====
